---- MODULE Spec2Model ----
(***************************************************************************)
(* Model of the KubeClient of pkg/reconciler/kubernetes/internal           *)
(* (kubeclient.go): Apply, Patch, Delete, Get and DeleteNamespace, run by  *)
(* a caller against a cluster API that holds a keyed store of resources.   *)
(* Each call the client makes to the cluster API (get, create, replace,    *)
(* patch, delete, list) is one atomic step; other clients of the cluster   *)
(* may write between a read of the caller and the write that follows it.   *)
(* Every operation is written for a caller p, so that the steps of         *)
(* several callers can be interleaved.                                     *)
(***************************************************************************)
EXTENDS Naturals, Sequences, FiniteSets, TLC

\* ------------------------------------------------------------------ bounds
\* Number of client operations started in one behaviour.
MaxOps == 2
\* Number of writes other clients of the cluster make in one behaviour.
MaxOthers == 1

\* ------------------------------------------------------------------ values
Procs == {"a", "b"}

NoErr == "ok"
ErrNoMatch == "NoMatch"
ErrNotFound == "NotFound"
ErrAlreadyExists == "AlreadyExists"
ErrTransport == "Transport"

\* Outcomes of the transport itself: the call goes through, or it fails.
Reliable == {NoErr}
Flaky == {NoErr, ErrTransport}

\* Resource types the discovery document of the cluster knows.
PodType ==
    [Kind |-> "Pod", Group |-> "", Version |-> "v1", Resource |-> "pods",
     Singular |-> "pod", NamespaceScoped |-> TRUE]
ClusterRoleType ==
    [Kind |-> "ClusterRole", Group |-> "rbac.authorization.k8s.io", Version |-> "v1",
     Resource |-> "clusterroles", Singular |-> "clusterrole", NamespaceScoped |-> FALSE]
NamespaceType ==
    [Kind |-> "Namespace", Group |-> "", Version |-> "v1", Resource |-> "namespaces",
     Singular |-> "namespace", NamespaceScoped |-> FALSE]
Discovery == {PodType, ClusterRoleType, NamespaceType}

NoType ==
    [Kind |-> "", Group |-> "", Version |-> "", Resource |-> "",
     Singular |-> "", NamespaceScoped |-> FALSE]

\* strings.ToLower on the strings the model uses.
ToLower(s) ==
    CASE s = "Pod" -> "pod"
      [] s = "ClusterRole" -> "clusterrole"
      [] s = "Namespace" -> "namespace"
      [] s = "Widget" -> "widget"
      [] OTHER -> s

\* Manifests a caller may hand to Apply: kind and apiVersion (group, version).
ManifestKinds ==
    { [Kind |-> "Pod", Group |-> "", Version |-> "v1"],
      [Kind |-> "ClusterRole", Group |-> "rbac.authorization.k8s.io", Version |-> "v1"],
      [Kind |-> "Namespace", Group |-> "", Version |-> "v1"],
      [Kind |-> "Widget", Group |-> "", Version |-> "v1"] }
\* kind / resource strings a caller may hand to Delete, Patch, Get and List.
KindArgs == {"pods", "clusterroles", "Namespace", "widgets"}
Names == {"foo"}
ManifestNamespaces == {"", "foo"}
Overrides == {"", "bar"}
NamespaceArgs == {"", "foo"}
Payloads == {"v1", "v2"}
\* Patch documents a caller may hand to Patch, named by the payload they produce.
Patches == {"v3"}
\* Payloads other clients of the cluster write.
OtherPayloads == {"w"}

Absent == "absent"

\* The key of a resource in the cluster's store.
Key(resource, namespace, name) == <<resource, namespace, name>>
Keys ==
    {Key("pods", ns, n) : ns \in {"default", "foo", "bar"}, n \in Names}
    \cup {Key("clusterroles", "", n) : n \in Names}
    \cup {Key("namespaces", "", n) : n \in {"default", "foo", "bar"}}

\* Metadata (kubeclient.go, type Metadata); the zero value has every field "".
Metadata(name, namespace, resource, group, version, kind) ==
    [Name |-> name, Namespace |-> namespace, Resource |-> resource,
     Group |-> group, Version |-> version, Kind |-> kind]
EmptyMetadata == Metadata("", "", "", "", "", "")
NilMetadata == [Nil |-> TRUE]

\* ---------------------------------------------------------------- resolver
\* mapper.RESTMapping(gvk.GroupKind(), gvk.Version): the type of exactly this
\* group, version and kind, or NoType when discovery knows none.
RESTMapping(kind, group, version) ==
    LET hits == {t \in Discovery :
                    t.Kind = kind /\ t.Group = group /\ t.Version = version}
    IN IF hits = {} THEN NoType ELSE CHOOSE t \in hits : TRUE

\* mapper.KindFor(GroupVersionResource{Resource: kind}): the input is lowercased and
\* matched against the plural and the singular resource names of discovery.
KindFor(kind) ==
    LET hits == {t \in Discovery :
                    ToLower(kind) = t.Resource \/ ToLower(kind) = t.Singular}
    IN IF hits = {} THEN NoType ELSE CHOOSE t \in hits : TRUE

\* The error of a resolution: a type the loaded cache holds is served from the cache;
\* otherwise the discovery document is fetched (outcome e) and looked up again.
ResolveErr(t, cached, e) ==
    IF cached /\ t # NoType THEN NoErr
    ELSE IF e # NoErr THEN e
    ELSE IF t = NoType THEN ErrNoMatch
    ELSE NoErr

\* The outcomes the discovery fetch of a resolution can have: none but success when
\* the cache serves the type.
FetchOutcomes(t, cached, F) == IF cached /\ t # NoType THEN {NoErr} ELSE F

\* The discovery cache after a resolution.
CacheAfter(t, cached, e) ==
    IF cached /\ t # NoType THEN TRUE ELSE e = NoErr

\* ------------------------------------------------------- namespace scoping
\* A variant that forgets the "default" fallback.
setDefaultNamespace_NoDefault(namespace, uNamespace, namespaceScoped) ==
    IF namespaceScoped
    THEN IF uNamespace = "" THEN namespace ELSE uNamespace
    ELSE uNamespace

setDefaultNamespaceIfScopedAndNoneSet(namespace, uNamespace, namespaceScoped) ==
    IF namespaceScoped
    THEN IF uNamespace = ""
         THEN IF namespace = "" THEN "default" ELSE namespace
         ELSE uNamespace
    ELSE uNamespace

\* A variant that forgets to ask for the scope.
setNamespace_Unscoped(namespace, uNamespace, namespaceScoped) ==
    IF uNamespace = "" THEN namespace ELSE uNamespace

setNamespaceIfScoped(namespace, uNamespace, namespaceScoped) ==
    IF uNamespace = "" /\ namespaceScoped THEN namespace ELSE uNamespace

\* A variant in which a given override wins over the manifest's own namespace.
ApplyNamespace_OverrideWins(namespaceOverride, uNamespace, namespaceScoped) ==
    IF ~namespaceScoped THEN uNamespace
    ELSE IF namespaceOverride # "" THEN namespaceOverride
    ELSE IF uNamespace = "" THEN "default"
    ELSE uNamespace

\* The manifest's namespace after both calls of ApplyWithNamespaceOverride.
ApplyNamespace(namespaceOverride, uNamespace, namespaceScoped) ==
    setNamespaceIfScoped(
        namespaceOverride,
        setDefaultNamespaceIfScopedAndNoneSet(namespaceOverride, uNamespace, namespaceScoped),
        namespaceScoped)

\* A variant that puts the namespace in the request whatever the scope.
AddrNamespace_Always(t, namespace) == namespace

\* The namespace a request is addressed to: resource.Helper and the dynamic client
\* put the namespace in the request only for a namespace-scoped type.
AddrNamespace(t, namespace) == IF t.NamespaceScoped THEN namespace ELSE ""
AddrKey(t, namespace, name) == Key(t.Resource, AddrNamespace(t, namespace), name)

\* ------------------------------------------------------------------- state
VARIABLES
    remote,     \* the cluster's store: key -> payload (of a manifest or patch), or Absent
    config,     \* kube.config, the connection configuration shared by all calls
    cache,      \* whether the discovery cache of kube.mapper is loaded
    pc,         \* per caller: "idle", or the next step of its running operation
    cur,        \* per caller: the frame of its running or last finished operation
    ops,        \* operations started so far
    others      \* writes by other clients of the cluster so far

vars == <<remote, config, cache, pc, cur, ops, others>>

\* config.GroupVersion is a pointer: nil until some call sets it.
NilGroupVersion == [Group |-> "<nil>", Version |-> "<nil>"]
GroupVersion(group, version) == [Group |-> group, Version |-> version]
InitConfig == [Host |-> "cluster", GroupVersion |-> NilGroupVersion]

Frame(op, kind, name, nsIn, namespace, override, data) ==
    [op |-> op, kind |-> kind, name |-> name, nsIn |-> nsIn, namespace |-> namespace,
     override |-> override, data |-> data, again |-> FALSE, existed |-> FALSE,
     resolveErr |-> NoErr, mapping |-> NoType, branch |-> "", refresh |-> "",
     calls |-> <<>>, infos |-> {}, err |-> NoErr, metadata |-> NilMetadata,
     obj |-> Absent]
IdleFrame == Frame("none", "", "", "", "", "", "")

\* One call to the cluster API: its verb, the key it addresses, what it returned.
Call(verb, key, result) == [verb |-> verb, key |-> key, result |-> result]
Verbs(calls) == {calls[i].verb : i \in DOMAIN calls}

\* What the store holds under a key (nothing under a key no resource can have).
Stored(store, key) == IF key \in Keys THEN store[key] ELSE Absent

\* A variant in which a call on an absent target succeeds.
TargetResult_AbsentIsFine(store, key, e) == e

\* What a call that needs its target to exist returns: the transport's failure if it
\* failed, not-found if the target is absent.
TargetResult(store, key, e) ==
    IF e # NoErr THEN e
    ELSE IF Stored(store, key) = Absent THEN ErrNotFound
    ELSE NoErr

Init ==
    /\ remote = [k \in Keys |-> Absent]
    /\ config = InitConfig
    /\ cache = FALSE
    /\ pc = [p \in Procs |-> "idle"]
    /\ cur = [p \in Procs |-> IdleFrame]
    /\ ops = 0
    /\ others = 0

\* A caller is between operations and may start one more.
CanStart(p) == pc[p] = "idle" /\ ops < MaxOps

\* The operation of caller p returns: its frame stays as the record of the call.
Return(p, frame) ==
    /\ cur' = [cur EXCEPT ![p] = frame]
    /\ pc' = [pc EXCEPT ![p] = "idle"]

\* The operation of caller p goes on to its step `next`.
Goto(p, next, frame) ==
    /\ cur' = [cur EXCEPT ![p] = frame]
    /\ pc' = [pc EXCEPT ![p] = next]

\* A variant that goes on after a failed resolution.
Failed_Ignored(err) == FALSE

\* `if err != nil { return ..., err }` after a resolution.
Failed(err) == err # NoErr

\* -------------------------------------------------------------------- Apply
\* The manifest namespaces a caller may pass: a fresh manifest's, or the namespace its
\* previous Apply left on the same manifest object (Apply sets it in place).
NamespacesToApply(p) ==
    ManifestNamespaces \cup (IF cur[p].op = "apply" THEN {cur[p].namespace} ELSE {})

\* This Apply repeats the caller's previous operation: an Apply of the same manifest
\* with the same override that created the resource.
Repeats(prev, gvk, name, nsIn, override, data) ==
    /\ prev.op = "apply" /\ prev.branch = "create" /\ prev.err = NoErr
    /\ prev.kind = gvk.Kind /\ prev.name = name /\ prev.data = data
    /\ prev.override = override
    /\ nsIn \in {prev.nsIn, prev.namespace}

\* ApplyWithNamespaceOverride up to the existence lookup: resolve the manifest's type,
\* set config.GroupVersion, build the helper, settle the manifest's namespace.
ApplyBegin(p, F) ==
    /\ CanStart(p)
    /\ \E gvk \in ManifestKinds, name \in Names, nsIn \in NamespacesToApply(p),
          override \in Overrides, data \in Payloads :
      \E e \in FetchOutcomes(RESTMapping(gvk.Kind, gvk.Group, gvk.Version), cache, F) :
        LET restMapping == RESTMapping(gvk.Kind, gvk.Group, gvk.Version)
            err == ResolveErr(restMapping, cache, e)
            namespace == ApplyNamespace(override, nsIn, restMapping.NamespaceScoped)
            f0 == [Frame("apply", gvk.Kind, name, nsIn, nsIn, override, data)
                      EXCEPT !.again = Repeats(cur[p], gvk, name, nsIn, override, data),
                             !.resolveErr = err,
                             !.metadata = EmptyMetadata]
        IN /\ cache' = CacheAfter(restMapping, cache, e)
           /\ ops' = ops + 1
           /\ UNCHANGED <<remote, others>>
           /\ IF Failed(err)
              THEN /\ Return(p, [f0 EXCEPT !.err = err])
                   /\ config' = config
              ELSE /\ config' = [config EXCEPT
                                    !.GroupVersion = GroupVersion(gvk.Group, gvk.Version)]
                   /\ Goto(p, "lookup",
                           [f0 EXCEPT
                              !.mapping = restMapping,
                              !.namespace = namespace,
                              !.existed = Stored(remote,
                                              AddrKey(restMapping, namespace, name))
                                          # Absent])

\* A variant that takes every failed lookup for "the resource is absent".
AfterLookup_ErrorIsAbsent(result) ==
    IF result = NoErr THEN "replace" ELSE "create"

\* A variant with the two branches exchanged.
AfterLookup_Exchanged(result) ==
    IF result = NoErr THEN "create"
    ELSE IF result = ErrNotFound THEN "replace"
    ELSE "return"

\* Where Apply goes after info.Get(): on to replace when the resource was found, on to
\* create when the error is not-found, and out with any other error.
AfterLookup(result) ==
    IF result = NoErr THEN "replace"
    ELSE IF result = ErrNotFound THEN "create"
    ELSE "return"

\* info.Get(): the existence lookup.
ApplyLookup(p, F) ==
    /\ pc[p] = "lookup"
    /\ \E e \in F :
        LET f == cur[p]
            key == AddrKey(f.mapping, f.namespace, f.name)
            result == TargetResult(remote, key, e)
            f1 == [f EXCEPT !.calls = Append(@, Call("get", key, result))]
        IN IF AfterLookup(result) = "return"
           THEN Return(p, [f1 EXCEPT !.err = result])
           ELSE Goto(p, AfterLookup(result), f1)
    /\ UNCHANGED <<remote, config, cache, ops, others>>

\* The store after a successful create of `data` under `key`.
Created(store, key, data) == [store EXCEPT ![key] = data]

\* A variant that also fills in the version and the resource of a core type.
CreatedMetadata_WithResource(name, namespace, kind) ==
    Metadata(name, namespace, "pods", "", "v1", kind)

\* The result of the create path: name, namespace and kind of the manifest.
CreatedMetadata(name, namespace, kind) == Metadata(name, namespace, "", "", "", kind)

\* A variant that issues the create again after a failure of the transport.
AfterCreate_Again(result) ==
    IF result = ErrTransport THEN "create" ELSE "return"

\* A variant that falls back to a replace when the resource exists by now.
AfterCreate_ReplaceIfExists(result) ==
    IF result = ErrAlreadyExists THEN "replace" ELSE "return"

\* Where Apply goes after a failed helper.Create: out with the error, whatever it is.
AfterCreate(result) == "return"

\* helper.Create(u.GetNamespace(), true, u) and the result of the create path.
ApplyCreate(p, F) ==
    /\ pc[p] = "create"
    /\ \E e \in F :
        LET f == cur[p]
            key == AddrKey(f.mapping, f.namespace, f.name)
            result == IF e # NoErr THEN e
                      ELSE IF Stored(remote, key) # Absent THEN ErrAlreadyExists
                      ELSE NoErr
            f1 == [f EXCEPT !.calls = Append(@, Call("create", key, result)),
                            !.branch = "create"]
        IN IF result # NoErr
           THEN /\ remote' = remote
                /\ IF AfterCreate(result) = "return"
                   THEN Return(p, [f1 EXCEPT !.err = result])
                   ELSE Goto(p, AfterCreate(result), f1)
           ELSE /\ remote' = Created(remote, key, f.data)
                /\ Return(p, [f1 EXCEPT
                        !.metadata = CreatedMetadata(f.name, f.namespace, f.kind)])
    /\ UNCHANGED <<config, cache, ops, others>>

\* newReplace(helper): the stored object's content becomes the manifest's, whatever it
\* was.
Replaced(store, key, data) == [store EXCEPT ![key] = data]

\* A variant that forgets the namespace.
ReplacedMetadata_NoNamespace(name, namespace, kind) ==
    Metadata(name, "", "", "", "", kind)

\* The result of the replace path: name, namespace and kind of the manifest.
ReplacedMetadata(name, namespace, kind) == Metadata(name, namespace, "", "", "", kind)

\* A variant that returns the failure of the refresh.
AfterRefresh_Propagated(refreshed) ==
    IF refreshed = "failed" THEN ErrTransport ELSE NoErr

\* `_ = info.Refresh(replacedObject, true)`: the error Apply is left with after the
\* refresh of the local view, whatever the refresh returned.
AfterRefresh(refreshed) == NoErr

\* replace(u, namespace, name), info.Refresh (its error is dropped) and the result of
\* the replace path.
ApplyReplace(p, F) ==
    /\ pc[p] = "replace"
    /\ \E e \in F, refreshed \in {"ok", "failed"} :
        LET f == cur[p]
            key == AddrKey(f.mapping, f.namespace, f.name)
            result == TargetResult(remote, key, e)
            f1 == [f EXCEPT !.calls = Append(@, Call("replace", key, result)),
                            !.branch = "replace"]
        IN IF result # NoErr
           THEN Return(p, [f1 EXCEPT !.err = result]) /\ remote' = remote
           ELSE /\ remote' = Replaced(remote, key, f.data)
                /\ IF AfterRefresh(refreshed) # NoErr
                   THEN Return(p, [f1 EXCEPT !.refresh = refreshed,
                                             !.err = AfterRefresh(refreshed)])
                   ELSE Return(p, [f1 EXCEPT
                           !.refresh = refreshed,
                           !.metadata = ReplacedMetadata(f.name, f.namespace, f.kind)])
    /\ UNCHANGED <<config, cache, ops, others>>

\* ------------------------------------------------------------------- Delete
\* The result of a delete: the caller's kind argument, the name, the namespace.
DeletedMetadata(kind, gvk, name, namespace) ==
    Metadata(name, namespace, "", "", "", kind)

\* A variant that leaves an empty namespace argument empty.
DeleteNamespaceArg_NoDefault(isNamespaceResource, namespace) == namespace

\* `if !isNamespaceResource && namespace == "" { namespace = "default" }`.
DeleteNamespaceArg(isNamespaceResource, namespace) ==
    IF ~isNamespaceResource /\ namespace = "" THEN "default" ELSE namespace

\* A variant that reports the namespace argument for the namespace kind too.
DeletedNamespace_Kept(isNamespaceResource, namespace) == namespace

\* `if isNamespaceResource { namespace = "" }` before the result is built.
DeletedNamespace(isNamespaceResource, namespace) ==
    IF isNamespaceResource THEN "" ELSE namespace

\* DeleteResourceByKindAndNameAndNamespace: one delete call, addressed by the resolved
\* scope.  A failed resolution returns (nil, err).
DeleteResourceByKindAndNameAndNamespace(p, F) ==
    /\ CanStart(p)
    /\ \E kind \in KindArgs, name \in Names, namespace \in NamespaceArgs, e \in F :
      \E eR \in FetchOutcomes(KindFor(kind), cache, F) :
        LET gvk == KindFor(kind)
            errR == ResolveErr(gvk, cache, eR)
            isNamespaceResource == ToLower(gvk.Kind) = "namespace"
            ns1 == DeleteNamespaceArg(isNamespaceResource, namespace)
            restMapping == RESTMapping(gvk.Kind, gvk.Group, gvk.Version)
            key == AddrKey(restMapping, ns1, name)
            result == TargetResult(remote, key, e)
            ns2 == DeletedNamespace(isNamespaceResource, ns1)
            f0 == [Frame("delete", kind, name, namespace, namespace, "", "")
                      EXCEPT !.resolveErr = errR]
        IN /\ cache' = CacheAfter(gvk, cache, eR)
           /\ ops' = ops + 1
           /\ UNCHANGED <<config, others>>
           /\ IF Failed(errR)
              THEN /\ Return(p, [f0 EXCEPT !.err = errR])
                   /\ remote' = remote
              ELSE /\ remote' = IF result = NoErr THEN [remote EXCEPT ![key] = Absent]
                                ELSE remote
                   /\ Return(p, [f0 EXCEPT
                          !.mapping = restMapping,
                          !.namespace = ns1,
                          !.calls = <<Call("delete", key, result)>>,
                          !.err = result,
                          !.metadata = DeletedMetadata(kind, gvk, name, ns2)])

\* ---------------------------------------------------------------------- Get
\* What Get returns for a resolved type: the stored object, or the error of the call.
GetCall(t, name, namespace, store, e) ==
    LET key == AddrKey(t, namespace, name)
        result == TargetResult(store, key, e)
    IN [err |-> result, obj |-> IF result = NoErr THEN Stored(store, key) ELSE Absent]

Get(p, F) ==
    /\ CanStart(p)
    /\ \E kind \in KindArgs, name \in Names, namespace \in NamespaceArgs, e \in F :
      \E eR \in FetchOutcomes(KindFor(kind), cache, F) :
        LET gvk == KindFor(kind)
            errR == ResolveErr(gvk, cache, eR)
            restMapping == RESTMapping(gvk.Kind, gvk.Group, gvk.Version)
            got == GetCall(restMapping, name, namespace, remote, e)
            f0 == [Frame("get", kind, name, namespace, namespace, "", "")
                      EXCEPT !.resolveErr = errR]
        IN /\ cache' = CacheAfter(gvk, cache, eR)
           /\ ops' = ops + 1
           /\ UNCHANGED <<config, remote, others>>
           /\ IF Failed(errR)
              THEN Return(p, [f0 EXCEPT !.err = errR])
              ELSE Return(p, [f0 EXCEPT
                          !.mapping = restMapping,
                          !.calls = <<Call("get", AddrKey(restMapping, namespace, name),
                                           got.err)>>,
                          !.err = got.err,
                          !.obj = got.obj])

\* -------------------------------------------------------------------- Patch
\* The cluster applies the patch to the stored object: the patched payload.
Patched(content, patch) == patch

\* The result of a patch: name and namespace of the patched object, group, version and
\* resource of the mapping, the resolved kind.
PatchedMetadata(name, namespace, restMapping, gvk) ==
    Metadata(name, namespace, restMapping.Resource, restMapping.Group,
             restMapping.Version, gvk.Kind)

\* PatchUsingStrategy: one patch call, addressed by the resolved scope.
PatchUsingStrategy(p, F) ==
    /\ CanStart(p)
    /\ \E kind \in KindArgs, name \in Names, namespace \in NamespaceArgs,
          patch \in Patches, e \in F :
      \E eR \in FetchOutcomes(KindFor(kind), cache, F) :
        LET gvk == KindFor(kind)
            errR == ResolveErr(gvk, cache, eR)
            restMapping == RESTMapping(gvk.Kind, gvk.Group, gvk.Version)
            key == AddrKey(restMapping, namespace, name)
            result == TargetResult(remote, key, e)
            f0 == [Frame("patch", kind, name, namespace, namespace, "", patch)
                      EXCEPT !.resolveErr = errR, !.metadata = EmptyMetadata]
            f1 == [f0 EXCEPT !.mapping = restMapping,
                             !.calls = <<Call("patch", key, result)>>]
        IN /\ cache' = CacheAfter(gvk, cache, eR)
           /\ ops' = ops + 1
           /\ UNCHANGED <<config, others>>
           /\ IF Failed(errR)
              THEN /\ Return(p, [f0 EXCEPT !.err = errR])
                   /\ remote' = remote
              ELSE IF result # NoErr
              THEN /\ Return(p, [f1 EXCEPT !.err = result])
                   /\ remote' = remote
              ELSE /\ remote' = [remote EXCEPT ![key] = Patched(@, patch)]
                   /\ Return(p, [f1 EXCEPT
                          !.obj = Patched(remote[key], patch),
                          !.metadata = PatchedMetadata(name, key[2], restMapping, gvk)])

\* ---------------------------------------------------------- DeleteNamespace
\* The resources the builder's listing of a namespace finds.
InNamespace(store, namespace) ==
    {k \in Keys : k[2] = namespace /\ namespace # "" /\ store[k] # Absent}

\* A variant that deletes the namespace whatever the listing holds.
AfterList_AnyListing(infos, err) ==
    IF err # NoErr THEN "return" ELSE "deletens"

\* A variant that looks at the listing before it looks at the error.
AfterList_ListingFirst(infos, err) ==
    IF Cardinality(infos) = 0 THEN "deletens" ELSE "return"

\* Where DeleteNamespace goes after r.Infos(): out with the error if there is one, on
\* to the delete of the namespace if the listing is empty, out without error otherwise.
AfterList(infos, err) ==
    IF err # NoErr THEN "return"
    ELSE IF Cardinality(infos) = 0 THEN "deletens"
    ELSE "return"

\* DeleteNamespace up to the check of the listing: r.Infos() gives the listing, or an
\* error together with whatever part of the listing was gathered.
DeleteNamespaceList(p, F) ==
    /\ CanStart(p)
    /\ \E namespace \in NamespaceArgs \ {""}, e \in F :
        LET all == InNamespace(remote, namespace) IN
        \E infos \in (IF e = NoErr THEN {all} ELSE SUBSET all) :
            LET f1 == [Frame("deletens", "", "", namespace, namespace, "", "")
                          EXCEPT !.calls = <<Call("list", Key("all", namespace, ""), e)>>,
                                 !.infos = infos,
                                 !.err = e]
            IN IF AfterList(infos, e) = "return"
               THEN Return(p, f1)
               ELSE Goto(p, AfterList(infos, e), f1)
    /\ ops' = ops + 1
    /\ UNCHANGED <<remote, config, cache, others>>

\* The delete of the namespace object itself.
DeleteNamespaceDelete(p, F) ==
    /\ pc[p] = "deletens"
    /\ \E e \in F :
        LET f == cur[p]
            key == Key("namespaces", "", f.namespace)
            result == TargetResult(remote, key, e)
        IN /\ remote' = IF result = NoErr THEN [remote EXCEPT ![key] = Absent]
                        ELSE remote
           /\ Return(p, [f EXCEPT !.calls = Append(@, Call("delete", key, result)),
                                  !.err = result])
    /\ UNCHANGED <<config, cache, ops, others>>

\* ------------------------------------------------------------ specification
Client(p, F) ==
    \/ ApplyBegin(p, F)
    \/ ApplyLookup(p, F)
    \/ ApplyCreate(p, F)
    \/ ApplyReplace(p, F)
    \/ DeleteResourceByKindAndNameAndNamespace(p, F)
    \/ Get(p, F)
    \/ PatchUsingStrategy(p, F)
    \/ DeleteNamespaceList(p, F)
    \/ DeleteNamespaceDelete(p, F)

\* The keys a running operation of caller p has read and is about to act on: the
\* resource between Apply's lookup and its create or replace, the namespace and its
\* content between DeleteNamespace's listing and its delete.
Watched(p) ==
    IF pc[p] \in {"create", "replace"}
    THEN {AddrKey(cur[p].mapping, cur[p].namespace, cur[p].name)}
    ELSE IF pc[p] = "deletens"
    THEN {k \in Keys : k[2] = cur[p].namespace}
         \cup {Key("namespaces", "", cur[p].namespace)}
    ELSE {}

\* Another client of the same cluster creates, rewrites or deletes a resource between
\* a read of the caller's operation and the write that depends on it.
OtherActor ==
    /\ others < MaxOthers
    /\ \E k \in Watched("a") \cap Keys, v \in OtherPayloads \cup {Absent} :
        /\ remote[k] # v
        /\ remote' = [remote EXCEPT ![k] = v]
    /\ others' = others + 1
    /\ UNCHANGED <<config, cache, pc, cur, ops>>

\* One caller over a transport that may fail, on a cluster other clients write to.
Next == Client("a", Flaky) \/ OtherActor
Spec == Init /\ [][Next]_vars

\* One caller, one operation after the other, over a transport that does not fail, on
\* a cluster no one else writes to.
NextSeq == Client("a", Reliable)
SpecSeq == Init /\ [][NextSeq]_vars

\* Two callers that run Apply concurrently, their calls interleaved, over a transport
\* that does not fail, on a cluster no one else writes to.
NextConc ==
    \/ \E p \in Procs : ApplyBegin(p, Reliable)
    \/ \E p \in Procs : ApplyLookup(p, Reliable)
    \/ \E p \in Procs : ApplyCreate(p, Reliable)
    \/ \E p \in Procs : ApplyReplace(p, Reliable)
SpecConc == Init /\ [][NextConc]_vars

\* ------------------------------------------------------------------ claims
\* An Apply of caller p that resolved its type (and so settled the namespace).
Applying(p) == cur[p].op = "apply" /\ cur[p].mapping # NoType
\* The operation of caller p has returned.
Returned(p) == pc[p] = "idle" /\ cur[p].op # "none"
\* The namespaces the calls of caller p's operation were addressed to.
AddressedNamespaces(p) == {cur[p].calls[i].key[2] : i \in DOMAIN cur[p].calls}

\* C1 (as claimed): for a cluster-scoped type the manifest's namespace used by Apply
\* and the Namespace of the returned result are "", whatever the manifest and the
\* override say.
C1_ClusterScopedNamespaceEmpty ==
    \A p \in Procs :
        (Applying(p) /\ ~cur[p].mapping.NamespaceScoped) =>
            /\ cur[p].namespace = ""
            /\ (Returned(p) /\ cur[p].err = NoErr) => cur[p].metadata.Namespace = ""

\* C1 (amended): for a cluster-scoped type Apply leaves the manifest's namespace as
\* declared, whatever the override: every request is addressed without a namespace,
\* and the Namespace of the returned result is the declared namespace ("" exactly when
\* the manifest declares none).
C1_ClusterScopedNamespaceUntouched ==
    \A p \in Procs :
        (Applying(p) /\ ~cur[p].mapping.NamespaceScoped) =>
            /\ cur[p].namespace = cur[p].nsIn
            /\ AddressedNamespaces(p) \subseteq {""}
            /\ (Returned(p) /\ cur[p].err = NoErr) =>
                    cur[p].metadata.Namespace = cur[p].nsIn

\* A cluster-scoped manifest that declares a namespace was applied with an override.
C1_Witness ==
    \E p \in Procs :
        /\ Applying(p) /\ ~cur[p].mapping.NamespaceScoped
        /\ Returned(p) /\ cur[p].err = NoErr
        /\ cur[p].nsIn = "foo" /\ cur[p].override = "bar"
        /\ cur[p].metadata.Namespace = "foo"

C3_EmptyNamespaceFilled ==
    \A p \in Procs :
        (Applying(p) /\ cur[p].mapping.NamespaceScoped) =>
            /\ cur[p].namespace # ""
            /\ cur[p].nsIn = "" =>
                /\ cur[p].namespace =
                      (IF cur[p].override # "" THEN cur[p].override ELSE "default")
                /\ AddressedNamespaces(p) \subseteq {cur[p].namespace}

\* A manifest without a namespace was created in "default" (no override), another in
\* the override's namespace.
C3_Witness ==
    \E p \in Procs :
        /\ Applying(p) /\ cur[p].mapping.NamespaceScoped /\ cur[p].nsIn = ""
        /\ Returned(p) /\ cur[p].err = NoErr
        /\ cur[p].override = "" /\ cur[p].metadata.Namespace = "default"
        /\ remote[Key("pods", "bar", cur[p].name)] # Absent

\* What a Get of the resource an Apply of caller p was about returns now.
GetApplied(p) ==
    GetCall(KindFor(cur[p].kind), cur[p].name, cur[p].namespace, remote, NoErr)
\* The manifest's content, found.
Found(data) == [err |-> NoErr, obj |-> data]

\* C4: with one caller, no other writer and no transport failure, an Apply of a
\* manifest whose resource is absent takes the create branch, the Apply of the same
\* manifest that follows it takes the replace branch, and after each of them a Get of
\* (kind, name, effective namespace) returns the manifest's content.
C4_CreateThenReplace ==
    \A p \in Procs :
        (Applying(p) /\ Returned(p)) =>
            /\ ~cur[p].existed =>
                /\ cur[p].branch = "create" /\ cur[p].err = NoErr
                /\ GetApplied(p) = Found(cur[p].data)
            /\ cur[p].again =>
                /\ cur[p].branch = "replace" /\ cur[p].err = NoErr
                /\ GetApplied(p) = Found(cur[p].data)

\* The second Apply of the same manifest has returned through the replace branch.
C4_Witness ==
    \E p \in Procs :
        /\ Applying(p) /\ Returned(p) /\ cur[p].again
        /\ cur[p].branch = "replace" /\ cur[p].err = NoErr
        /\ Verbs(cur[p].calls) = {"get", "replace"}

\* The lookup of caller p's Apply failed with an error other than not-found.
LookupFailed(p) ==
    /\ cur[p].op = "apply" /\ Len(cur[p].calls) >= 1
    /\ cur[p].calls[1].result \notin {NoErr, ErrNotFound}

\* C5: when the existence lookup of Apply fails with an error other than not-found,
\* Apply returns that error and has issued no call but the lookup: neither a create nor
\* a replace, so the step leaves the cluster's store as it was.
LookupErrorReturned ==
    \A p \in Procs :
        LookupFailed(p) =>
            /\ Returned(p)
            /\ cur[p].err = cur[p].calls[1].result
            /\ Len(cur[p].calls) = 1
            /\ cur[p].branch = ""
LookupErrorStep ==
    \A p \in Procs : (~LookupFailed(p) /\ LookupFailed(p)') => remote' = remote
C5_LookupErrorAborts == []LookupErrorReturned /\ [][LookupErrorStep]_vars

\* An Apply returned the transport error of its lookup; the resource it was about is
\* in the store (a replace would have been possible).
C5_Witness ==
    \E p \in Procs :
        /\ LookupFailed(p) /\ Returned(p) /\ cur[p].err = ErrTransport
        /\ remote[AddrKey(cur[p].mapping, cur[p].namespace, cur[p].name)] # Absent

\* C6: in Apply, Patch and Delete a failed type resolution ends the operation with the
\* resolution's error before any call to the cluster; every call of these operations
\* comes after a successful resolution to a discovered type.
C6_NoCallWithoutResolution ==
    \A p \in Procs :
        cur[p].op \in {"apply", "patch", "delete"} =>
            /\ cur[p].resolveErr # NoErr =>
                /\ Returned(p)
                /\ cur[p].err = cur[p].resolveErr
                /\ cur[p].calls = <<>>
            /\ cur[p].calls # <<>> =>
                /\ cur[p].resolveErr = NoErr
                /\ cur[p].mapping \in Discovery

\* A Delete of an unknown kind returned the resolution's error while the store holds a
\* resource of the name it was given.
C6_Witness ==
    \E p \in Procs :
        /\ cur[p].op = "delete" /\ Returned(p) /\ cur[p].kind = "widgets"
        /\ cur[p].resolveErr = ErrNoMatch /\ cur[p].calls = <<>>
        /\ \E k \in Keys : k[3] = cur[p].name /\ remote[k] # Absent

\* C7: DeleteNamespace issues the delete of the namespace exactly when its listing
\* returned without error and empty; with a listing that is not empty it issues no
\* delete and returns no error.
C7_DeleteIffListingEmpty ==
    \A p \in Procs :
        cur[p].op = "deletens" =>
            LET listing == cur[p].calls[1]
                empty == listing.result = NoErr /\ cur[p].infos = {}
            IN /\ "delete" \in Verbs(cur[p].calls) => empty
               /\ (Returned(p) /\ empty) => "delete" \in Verbs(cur[p].calls)
               /\ (listing.result = NoErr /\ cur[p].infos # {}) =>
                     /\ Returned(p)
                     /\ cur[p].err = NoErr
                     /\ Verbs(cur[p].calls) = {"list"}

\* DeleteNamespace returned without error and without a delete from a namespace that
\* holds a resource.
C7_Witness ==
    \E p \in Procs :
        /\ cur[p].op = "deletens" /\ Returned(p)
        /\ cur[p].infos # {} /\ cur[p].err = NoErr
        /\ Verbs(cur[p].calls) = {"list"}

\* C8: when the listing of DeleteNamespace returns an error, DeleteNamespace returns
\* that error and issues no delete, whatever part of the listing came with the error.
C8_ListingErrorAborts ==
    \A p \in Procs :
        (cur[p].op = "deletens" /\ cur[p].calls[1].result # NoErr) =>
            /\ Returned(p)
            /\ cur[p].err = cur[p].calls[1].result
            /\ Verbs(cur[p].calls) = {"list"}

\* The listing failed with nothing gathered from a namespace that holds a resource.
C8_Witness ==
    \E p \in Procs :
        /\ cur[p].op = "deletens" /\ Returned(p)
        /\ cur[p].calls[1].result = ErrTransport
        /\ cur[p].infos = {}
        /\ InNamespace(remote, cur[p].namespace) # {}

\* C9: the Kind of the result of every successful Apply, Patch and Delete is the kind of
\* the resolved type, not the string the caller gave.
C9_KindIsResolvedKind ==
    \A p \in Procs :
        (Returned(p) /\ cur[p].op \in {"apply", "patch", "delete"}
            /\ cur[p].err = NoErr) =>
                cur[p].metadata.Kind = cur[p].mapping.Kind

\* An Apply has returned through the replace branch without error.
ReplaceSucceeded(p) ==
    /\ Applying(p) /\ Returned(p)
    /\ cur[p].branch = "replace" /\ cur[p].err = NoErr

\* C10 (as claimed): the result of a successful replace has all six fields: name and
\* namespace of the manifest, kind, group, version and resource of the resolved type.
C10_ReplaceResultFull ==
    \A p \in Procs :
        ReplaceSucceeded(p) =>
            cur[p].metadata =
                Metadata(cur[p].name, cur[p].namespace, cur[p].mapping.Resource,
                         cur[p].mapping.Group, cur[p].mapping.Version,
                         cur[p].mapping.Kind)

\* C10 (amended): the result of a successful replace has the name and namespace of the
\* manifest and the kind of the resolved type; Group, Version and Resource are empty.
C10_ReplaceResultNameNamespaceKind ==
    \A p \in Procs :
        ReplaceSucceeded(p) =>
            cur[p].metadata =
                Metadata(cur[p].name, cur[p].namespace, "", "", "", cur[p].mapping.Kind)

\* A replace of a resource in a namespace has returned.
C10_Witness ==
    \E p \in Procs :
        /\ ReplaceSucceeded(p)
        /\ cur[p].namespace # ""
        /\ cur[p].metadata.Resource = ""

\* An Apply has returned through the create branch without error.
CreateSucceeded(p) ==
    /\ Applying(p) /\ Returned(p)
    /\ cur[p].branch = "create" /\ cur[p].err = NoErr

\* C11 (as claimed): the result of a successful create has the manifest's name and
\* kind and the effective namespace, which is "" for a cluster-scoped type; Group,
\* Version and Resource are empty.
C11_CreateResultEffectiveNamespace ==
    \A p \in Procs :
        CreateSucceeded(p) =>
            cur[p].metadata =
                Metadata(cur[p].name,
                         IF cur[p].mapping.NamespaceScoped THEN cur[p].namespace ELSE "",
                         "", "", "", cur[p].kind)

\* C11 (amended): the result of a successful create has the manifest's name and kind
\* and the namespace Apply left on the manifest: the namespace the create call was
\* addressed to for a namespace-scoped type, the declared namespace for a
\* cluster-scoped one; Group, Version and Resource are empty.
C11_CreateResultNameNamespaceKind ==
    \A p \in Procs :
        CreateSucceeded(p) =>
            /\ cur[p].metadata =
                  Metadata(cur[p].name, cur[p].namespace, "", "", "", cur[p].kind)
            /\ cur[p].kind = cur[p].mapping.Kind
            /\ cur[p].mapping.NamespaceScoped =>
                  cur[p].metadata.Namespace = cur[p].calls[2].key[2]
            /\ ~cur[p].mapping.NamespaceScoped =>
                  cur[p].metadata.Namespace = cur[p].nsIn

\* A manifest without a namespace was created in the override's namespace.
C11_Witness ==
    \E p \in Procs :
        /\ CreateSucceeded(p)
        /\ cur[p].nsIn = "" /\ cur[p].override = "bar"
        /\ cur[p].metadata.Namespace = "bar" /\ cur[p].metadata.Kind = "Pod"
        /\ cur[p].metadata.Resource = ""

\* A Delete of caller p that resolved its kind argument (and so issued its call).
Deleting(p) == cur[p].op = "delete" /\ cur[p].mapping # NoType

\* C12: a Delete of a kind that resolves to the namespace kind returns a result whose
\* Namespace is "" for every namespace argument, whether its delete call succeeded or
\* failed, and the call addresses the namespace object of the given name whatever the
\* namespace argument is.
C12_NamespaceKindDelete ==
    \A p \in Procs :
        (Deleting(p) /\ ToLower(cur[p].mapping.Kind) = "namespace") =>
            /\ Returned(p)
            /\ cur[p].metadata.Namespace = ""
            /\ cur[p].err = cur[p].calls[1].result
            /\ cur[p].calls[1].key = Key("namespaces", "", cur[p].name)

\* A Delete of the namespace kind with the namespace argument "foo" deleted the
\* namespace object.
C12_Witness ==
    \E p \in Procs :
        /\ Deleting(p) /\ cur[p].mapping.Kind = "Namespace"
        /\ cur[p].nsIn = "foo" /\ cur[p].err = NoErr
        /\ cur[p].metadata.Namespace = ""
        /\ remote[Key("namespaces", "", cur[p].name)] = Absent

\* This step is a whole Patch of caller p.
PatchStep(p) ==
    /\ pc[p] = "idle" /\ ops' = ops + 1
    /\ cur'[p].op = "patch" /\ cur'[p].calls # <<>>

\* C13: a Patch whose target does not exist returns an error (not-found unless the
\* transport failed) and no updated resource, and the step leaves the store as it was:
\* no resource is created.
PatchOfAbsentStep ==
    \A p \in Procs :
        (PatchStep(p) /\ Stored(remote, cur'[p].calls[1].key) = Absent) =>
            /\ cur'[p].err \in {ErrNotFound, ErrTransport}
            /\ cur'[p].calls[1].result = ErrNotFound => cur'[p].err = ErrNotFound
            /\ cur'[p].obj = Absent
            /\ cur'[p].metadata = EmptyMetadata
            /\ remote' = remote
C13_PatchOfAbsentCreatesNothing == [][PatchOfAbsentStep]_vars

\* A Patch of a pod that is not in namespace "foo" returned not-found while the store
\* holds the pod of that name in another namespace.
C13_Witness ==
    \E p \in Procs :
        /\ cur[p].op = "patch" /\ Returned(p) /\ cur[p].err = ErrNotFound
        /\ cur[p].calls[1].key = Key("pods", "foo", "foo")
        /\ cur[p].obj = Absent
        /\ remote[Key("pods", "foo", "foo")] = Absent
        /\ remote[Key("pods", "default", "foo")] # Absent

\* This step is a whole Patch or Delete of caller p that issued its call.
EndpointStep(p) ==
    /\ pc[p] = "idle" /\ ops' = ops + 1
    /\ cur'[p].op \in {"patch", "delete"} /\ cur'[p].calls # <<>>

\* C14: Patch and Delete choose the endpoint by the resolved scope.  For a
\* cluster-scoped type the one call addresses (resource, name) without a namespace, and
\* what it returns and does to the store depends on that object alone, not on the
\* namespace argument.  For a namespace-scoped type the call addresses the namespace
\* argument itself ("default" in place of an empty one, for Delete).
EndpointByScopeStep ==
    \A p \in Procs :
        EndpointStep(p) =>
            LET f == cur'[p]
                t == f.mapping
                call == f.calls[1]
                namespace == IF ~t.NamespaceScoped THEN ""
                             ELSE IF f.op = "delete" /\ f.nsIn = "" THEN "default"
                             ELSE f.nsIn
                key == Key(t.Resource, namespace, f.name)
            IN /\ Len(f.calls) = 1
               /\ call.verb = f.op
               /\ call.key = key
               /\ f.err = call.result
               /\ call.result \in {ErrTransport,
                                   IF Stored(remote, key) = Absent THEN ErrNotFound
                                   ELSE NoErr}
               /\ remote' = IF call.result # NoErr THEN remote
                            ELSE [remote EXCEPT
                                    ![key] = IF f.op = "delete" THEN Absent ELSE f.data]
               /\ (f.op = "patch" /\ f.err = NoErr) =>
                     /\ f.obj = f.data
                     /\ f.metadata.Namespace = namespace
C14_EndpointByScope == [][EndpointByScopeStep]_vars

\* A Patch of a cluster-scoped resource with the namespace argument "foo" patched the
\* resource of that name.
C14_Witness ==
    \E p \in Procs :
        /\ cur[p].op = "patch" /\ Returned(p) /\ cur[p].err = NoErr
        /\ ~cur[p].mapping.NamespaceScoped /\ cur[p].nsIn = "foo"
        /\ cur[p].calls[1].key = Key("clusterroles", "", cur[p].name)
        /\ remote[Key("clusterroles", "", cur[p].name)] = cur[p].data

\* The calls an operation may have issued so far, by their verbs.
CallsOf(op) ==
    CASE op = "apply" -> {<<>>, <<"get">>, <<"get", "create">>, <<"get", "replace">>}
      [] op = "patch" -> {<<>>, <<"patch">>}
      [] op = "delete" -> {<<>>, <<"delete">>}
      [] op = "get" -> {<<>>, <<"get">>}
      [] op = "deletens" -> {<<"list">>, <<"list", "delete">>}
      [] OTHER -> {<<>>}

\* The call failed for its operation: any error, but for the not-found of Apply's
\* lookup, which stands for "absent".
FailedCall(op, call) ==
    /\ call.result # NoErr
    /\ ~(op = "apply" /\ call.verb = "get" /\ call.result = ErrNotFound)

\* C15: no operation issues a call again.  An Apply issues at most one lookup and then
\* at most one of create and replace, a Patch at most one patch, a Delete at most one
\* delete; a call that fails is the last call of its operation, which returns the
\* call's error.
C15_NoRetry ==
    \A p \in Procs :
        LET f == cur[p] IN
        /\ [i \in DOMAIN f.calls |-> f.calls[i].verb] \in CallsOf(f.op)
        /\ \A i \in DOMAIN f.calls :
              FailedCall(f.op, f.calls[i]) =>
                  /\ i = Len(f.calls)
                  /\ Returned(p)
                  /\ f.err = f.calls[i].result

\* The create of an Apply failed in the transport and the Apply returned that failure
\* with the resource still absent.
C15_Witness ==
    \E p \in Procs :
        /\ cur[p].op = "apply" /\ Returned(p)
        /\ Len(cur[p].calls) = 2
        /\ cur[p].calls[2].verb = "create" /\ cur[p].calls[2].result = ErrTransport
        /\ cur[p].err = ErrTransport
        /\ remote[cur[p].calls[2].key] = Absent

\* C16: no operation modifies the connection's configuration: in every reachable
\* state each field of the shared configuration has the value it was constructed with.
C16_ConfigUnchanged == config = InitConfig

\* C17: in a Delete of a resolved kind other than the namespace kind an empty namespace
\* argument stands for "default" and any other is used as given: that namespace is the
\* Namespace of the result and, for a namespace-scoped type, the namespace the delete
\* call addresses.
C17_DeleteDefaultsNamespace ==
    \A p \in Procs :
        (Deleting(p) /\ ToLower(cur[p].mapping.Kind) # "namespace") =>
            LET namespace == IF cur[p].nsIn = "" THEN "default" ELSE cur[p].nsIn
            IN /\ cur[p].metadata.Namespace = namespace
               /\ cur[p].mapping.NamespaceScoped =>
                     cur[p].calls[1].key =
                         Key(cur[p].mapping.Resource, namespace, cur[p].name)

\* A Delete of a pod without a namespace argument deleted the pod in "default".
C17_Witness ==
    \E p \in Procs :
        /\ Deleting(p) /\ cur[p].mapping.Kind = "Pod"
        /\ cur[p].nsIn = "" /\ cur[p].err = NoErr
        /\ cur[p].metadata.Namespace = "default"
        /\ cur[p].calls[1].key = Key("pods", "default", cur[p].name)
        /\ remote[Key("pods", "default", cur[p].name)] = Absent

\* This step is the replace of caller p's Apply, and the replace call succeeded.
ReplaceStep(p) ==
    /\ pc[p] = "replace" /\ Len(cur'[p].calls) = 2
    /\ cur'[p].calls[2].result = NoErr

\* C18: when the replace call of Apply succeeds, Apply returns the result descriptor
\* and no error whether the refresh of the local view that follows succeeded or
\* failed, and the store holds the manifest's content either way.
ReplaceThenRefreshStep ==
    \A p \in Procs :
        ReplaceStep(p) =>
            /\ pc'[p] = "idle"
            /\ cur'[p].refresh \in {"ok", "failed"}
            /\ cur'[p].err = NoErr
            /\ cur'[p].metadata =
                  Metadata(cur[p].name, cur[p].namespace, "", "", "", cur[p].kind)
            /\ remote' = [remote EXCEPT ![cur'[p].calls[2].key] = cur[p].data]
C18_RefreshFailureSwallowed == [][ReplaceThenRefreshStep]_vars

\* An Apply whose refresh failed after the replace returned its result without error.
C18_Witness ==
    \E p \in Procs :
        /\ ReplaceSucceeded(p) /\ cur[p].refresh = "failed"
        /\ cur[p].metadata.Name = cur[p].name
        /\ remote[cur[p].calls[2].key] = cur[p].data

\* Two Applies of the same manifest with the same override.
SameManifest(f, g) ==
    /\ f.kind = g.kind /\ f.name = g.name /\ f.nsIn = g.nsIn
    /\ f.data = g.data /\ f.override = g.override

\* The two callers apply the same manifest, and the resource was absent when each of
\* the two Applies began: the Applies overlap.
Racing ==
    /\ Applying("a") /\ Applying("b")
    /\ SameManifest(cur["a"], cur["b"])
    /\ ~cur["a"].existed /\ ~cur["b"].existed

\* The create of caller p's Apply found the resource created in the meantime.
LostCreate(p) ==
    \E i \in DOMAIN cur[p].calls :
        cur[p].calls[i].verb = "create" /\ cur[p].calls[i].result = ErrAlreadyExists

\* C19: when two Applies of the same manifest overlap on a cluster where the resource
\* is absent and the transport does not fail, an Apply whose create finds the resource
\* created in the meantime returns that error and issues no replace; once both have
\* returned, at least one of them has returned without error and the store holds the
\* manifest's content.
C19_ConcurrentApply ==
    Racing =>
        /\ \A p \in Procs :
              LostCreate(p) =>
                  /\ Returned(p)
                  /\ cur[p].err = ErrAlreadyExists
                  /\ "replace" \notin Verbs(cur[p].calls)
        /\ (Returned("a") /\ Returned("b")) =>
              /\ \E p \in Procs : cur[p].err = NoErr
              /\ remote[AddrKey(cur["a"].mapping, cur["a"].namespace, cur["a"].name)]
                    = cur["a"].data

\* Both Applies looked the resource up before either created it: one created it, the
\* other returned already-exists.
C19_Witness ==
    /\ Racing /\ Returned("a") /\ Returned("b")
    /\ cur["a"].err = NoErr /\ cur["a"].branch = "create"
    /\ LostCreate("b") /\ cur["b"].err = ErrAlreadyExists
    /\ remote[Key("pods", "default", "foo")] = cur["b"].data

\* This step is the delete call of caller p's DeleteNamespace.
NamespaceDeleteStep(p) ==
    /\ pc[p] = "deletens" /\ pc'[p] = "idle"
    /\ "delete" \in Verbs(cur'[p].calls)

\* C20: while other clients may create resources in the namespace, DeleteNamespace
\* issues the delete of the namespace only at a moment when the namespace holds no
\* resource.
DeleteOfEmptyNamespaceStep ==
    \A p \in Procs :
        NamespaceDeleteStep(p) => InNamespace(remote, cur[p].namespace) = {}
C20_EmptyAtDelete == [][DeleteOfEmptyNamespaceStep]_vars

====
